---------------------------- MODULE Spec2Model ----------------------------
(***************************************************************************)
(* SquadCalc: the keypad codec (getPos, formatKeyPad, getKP), the          *)
(* ballistic solver (getElevation) and the classic-UI solve (shoot) of     *)
(* src/unnamed/part_000, with the map widget of src/src/js/squadMinimap.js.*)
(*                                                                         *)
(* Strings are sequences of one-character strings.  A JavaScript number is *)
(* a record [nan, v]: nan says the value is NaN, v is the value as an      *)
(* integer in the unit the definition names.  Keypad coordinates are exact *)
(* rationals held as integers in units of 1/PosScale.                      *)
(***************************************************************************)
EXTENDS Integers, Sequences, FiniteSets, TLC

\* ------------------------------------------------------------ bounds
MaxSub == 3          \* sub-keypad tokens of a typed keypad string
MaxCol == 27         \* macro columns of the map: 0..MaxCol (26, 27 lie past 'Z')
MaxRow == 1          \* macro rows of the map: 0..MaxRow
MaxPrecision == 7    \* precision arguments of getKP: 0..MaxPrecision
MaxShortLen == 3     \* length of the arbitrary typed strings
MaxDistSteps == 12   \* distances of the solver on its own: up to 100 * MaxDistSteps metres
MaxTiny == 1         \* parts of a lat below the unit: -MaxTiny..MaxTiny times 2^-43 metres
MaxFetches == 3      \* fetches of heatmap markers started in one behaviour
MaxLayerChanges == 2 \* calls of changeLayer in one behaviour
MaxMarkers == 4      \* markers created on the minimap in one behaviour
MaxSaves == 6        \* calls of saveCalc in one behaviour

\* ------------------------------------------------------------ constants
MinZoom == 1         \* squadMinimap options.minZoom
MaxZoom == 8         \* squadMinimap options.maxZoom

\* ------------------------------------------------------------ numbers
PosScale == 2 * 3^6  \* coordinates are held in units of 1/PosScale

NaN == [nan |-> TRUE, v |-> 0]
Num(n) == [nan |-> FALSE, v |-> n]
IsNaN(x) == x.nan
NumAdd(x, y) == IF x.nan \/ y.nan THEN NaN ELSE Num(x.v + y.v)
NumMul(x, y) == IF x.nan \/ y.nan THEN NaN ELSE Num(x.v * y.v)

\* JavaScript's % : the remainder takes the sign of the dividend.
JsRem(a, b) == IF a >= 0 THEN a % b ELSE -((-a) % b)
\* Math.ceil(a / b) for an integer a and b > 0.
CeilDiv(a, b) == -((-a) \div b)

\* ------------------------------------------------------------ characters
\* The characters with the codes 65..122, in code order; bsl stands for the
\* backslash (code 92) and bqt for the backquote (code 96).
Ascii65 == <<"A","B","C","D","E","F","G","H","I","J","K","L","M","N","O","P",
             "Q","R","S","T","U","V","W","X","Y","Z","[","bsl","]","^","_","bqt",
             "a","b","c","d","e","f","g","h","i","j","k","l","m","n","o","p",
             "q","r","s","t","u","v","w","x","y","z">>
Digits == <<"0","1","2","3","4","5","6","7","8","9">>

IndexOf(seq, c) == CHOOSE i \in 1..Len(seq) : seq[i] = c
InSeq(seq, c) == \E i \in 1..Len(seq) : seq[i] = c

\* String.prototype.charCodeAt(0) of a one-character string
CharCode(c) ==
    IF InSeq(Ascii65, c) THEN 64 + IndexOf(Ascii65, c)
    ELSE IF InSeq(Digits, c) THEN 47 + IndexOf(Digits, c)
    ELSE IF c = " " THEN 32
    ELSE IF c = "!" THEN 33
    ELSE IF c = "-" THEN 45
    ELSE 64    \* the at sign

\* String.fromCharCode for the codes 65..122
FromCharCode(n) == Ascii65[n - 64]

\* String.prototype.toUpperCase, one character
UpperChar(c) ==
    IF InSeq(Ascii65, c) /\ CharCode(c) >= 97 THEN FromCharCode(CharCode(c) - 32) ELSE c

toUpperCase(s) == [i \in 1..Len(s) |-> UpperChar(s[i])]

\* text.split(dash).join(empty): the string without its dashes
KeepDashes(s) == s
RECURSIVE RemoveDashes(_)
RemoveDashes(s) ==
    IF s = <<>> THEN <<>>
    ELSE IF Head(s) = "-" THEN RemoveDashes(Tail(s))
    ELSE <<Head(s)>> \o RemoveDashes(Tail(s))

\* String.prototype.slice(from, to) with 0 <= from, zero-based, end excluded
Slice(s, from, to) ==
    LET e == IF to > Len(s) THEN Len(s) ELSE to
    IN IF from >= e THEN <<>> ELSE SubSeq(s, from + 1, e)

\* Array.prototype.join(dash)
RECURSIVE JoinDash(_)
JoinDash(parts) ==
    IF Len(parts) = 0 THEN <<>>
    ELSE IF Len(parts) = 1 THEN parts[1]
    ELSE parts[1] \o <<"-">> \o JoinDash(Tail(parts))

\* String.prototype.split(dash): always at least one part, parts may be empty
RECURSIVE SplitDash(_)
SplitDash(s) ==
    IF \A i \in 1..Len(s) : s[i] # "-" THEN <<s>>
    ELSE LET k == CHOOSE i \in 1..Len(s) : s[i] = "-" /\ \A j \in 1..(i-1) : s[j] # "-"
         IN <<SubSeq(s, 1, k - 1)>> \o SplitDash(SubSeq(s, k + 1, Len(s)))

\* Number(str) for the strings the codec hands it (at most two characters of
\* the model's alphabet): white space is trimmed, the empty string is 0, decimal digits
\* are their value, anything else is NaN.
RECURSIVE TrimSpaces(_)
TrimSpaces(s) ==
    IF s = <<>> THEN s
    ELSE IF Head(s) = " " THEN TrimSpaces(Tail(s))
    ELSE IF s[Len(s)] = " " THEN TrimSpaces(SubSeq(s, 1, Len(s) - 1))
    ELSE s

RECURSIVE DigitsValue(_)
DigitsValue(s) ==
    IF s = <<>> THEN 0
    ELSE 10 * DigitsValue(SubSeq(s, 1, Len(s) - 1)) + (IndexOf(Digits, s[Len(s)]) - 1)

ToNumber(str) ==
    LET t == TrimSpaces(str)
    IN IF \A i \in 1..Len(t) : InSeq(Digits, t[i]) THEN Num(DigitsValue(t)) ELSE NaN

\* ------------------------------------------------------------ formatKeyPad
\* The value undefined, and a string value, of formatKeyPad's result.
Undefined == [undef |-> TRUE, s |-> <<>>]
Str(s) == [undef |-> FALSE, s |-> s]

\* the loop: while (i < TEXTND.length) TEXTPARTS.push(TEXTND.slice(i, i + 1))
RECURSIVE SubParts(_, _)
SubParts(textnd, i) ==
    IF i < Len(textnd) THEN <<Slice(textnd, i, i + 1)>> \o SubParts(textnd, i + 1)
    ELSE <<>>

formatKeyPadNoEmptyCheck(text) ==
    LET TEXTND == RemoveDashes(toUpperCase(text))
        TEXTPARTS == <<Slice(TEXTND, 0, 3)>> \o SubParts(TEXTND, 3)
    IN Str(JoinDash(TEXTPARTS))

formatKeyPad(text) ==
    IF Len(text) = 0 THEN Undefined
    ELSE LET TEXTND == RemoveDashes(toUpperCase(text))
             TEXTPARTS == <<Slice(TEXTND, 0, 3)>> \o SubParts(TEXTND, 3)
         IN Str(JoinDash(TEXTPARTS))

\* ------------------------------------------------------------ getPos
\* getPos's result: a thrown exception, or the point {lat, lng}, each a number
\* in units of 1/PosScale.
Thrown == [throws |-> TRUE, lat |-> NaN, lng |-> NaN]
Point(lat, lng) == [throws |-> FALSE, lat |-> lat, lng |-> lng]

\* 300 / 3 ** i, in units of 1/PosScale (exact for i <= 7)
Interval(i) == (300 * PosScale) \div (3^i)

\* PARTS[i].charCodeAt(0) < 65; a comparison with NaN is false
BelowAt(LETTERCODE) == ~LETTERCODE.nan /\ LETTERCODE.v < 64
BelowA(LETTERCODE) == ~LETTERCODE.nan /\ LETTERCODE.v < 65

\* PARTS[i].charCodeAt(0): NaN on the empty string
CharCodeAt0(part) == IF part = <<>> THEN NaN ELSE Num(CharCode(part[1]))

\* (SUB - 1) % 3
SubXOf(SUB) == IF SUB.nan THEN NaN ELSE Num(JsRem(SUB.v - 1, 3))
\* 2 - (Math.ceil(SUB / 3) - 1)
NoFlipSubYOf(SUB) == IF SUB.nan THEN NaN ELSE Num(CeilDiv(SUB.v, 3) - 1)
SubYOf(SUB) == IF SUB.nan THEN NaN ELSE Num(2 - (CeilDiv(SUB.v, 3) - 1))

\* the half interval added after the loop, which left i = PARTS.length
NoHalfInterval(i) == 0
HalfInterval(i) == Interval(i - 1) \div 2

\* The while loop of getPos from index i (zero-based) with the accumulated
\* lat and lng, and the statements after it.
RECURSIVE getPosLoop(_, _, _, _)
getPosLoop(PARTS, i, lat, lng) ==
    IF i < Len(PARTS) THEN
        IF i = 0 THEN
            LET LETTERCODE == CharCodeAt0(PARTS[1])
                LETTERINDEX == NumAdd(LETTERCODE, Num(-65))
            IN IF BelowA(LETTERCODE) THEN Point(NaN, NaN)
               ELSE LET KEYPADNB == NumAdd(ToNumber(Slice(PARTS[1], 1, Len(PARTS[1]))), Num(-1))
                    IN getPosLoop(PARTS, 1,
                                  NumAdd(lat, NumMul(Num(300 * PosScale), LETTERINDEX)),
                                  NumAdd(lng, NumMul(Num(300 * PosScale), KEYPADNB)))
        ELSE
            LET SUB == ToNumber(PARTS[i + 1])
                subX == SubXOf(SUB)
                subY == SubYOf(SUB)
                interval == Num(Interval(i))
            IN getPosLoop(PARTS, i + 1,
                          NumAdd(lat, NumMul(interval, subX)),
                          NumAdd(lng, NumMul(interval, subY)))
    ELSE Point(NumAdd(lat, Num(HalfInterval(i))), NumAdd(lng, Num(HalfInterval(i))))

\* getPos(kp).  formatKeyPad returns undefined for the empty string, and
\* undefined.split raises a TypeError.
getPos(kp) ==
    LET FORMATTED_KEYPAD == formatKeyPad(kp)
    IN IF FORMATTED_KEYPAD.undef THEN Thrown
       ELSE getPosLoop(SplitDash(FORMATTED_KEYPAD.s), 0, Num(0), Num(0))

\* ------------------------------------------------------------ getKP
\* Number to decimal string, n >= 0
RECURSIVE NumToString(_)
NumToString(n) ==
    IF n < 10 THEN <<Digits[n + 1]>>
    ELSE NumToString(n \div 10) \o <<Digits[(n % 10) + 1]>>

\* pad(num, size): the last size characters of 0000 followed by num
pad(num, size) ==
    LET s == <<"0", "0", "0", "0">> \o NumToString(num)
    IN SubSeq(s, Len(s) - size + 1, Len(s))

RECURSIVE FloorLog2(_)
FloorLog2(q) == IF q < 2 THEN 0 ELSE 1 + FloorLog2(q \div 2)

\* The double 300 / 3 ** k is the rational 300/3^k times (1 + e), where
\* e = IntervalErr(k) / (25 * 2^53): the division is exact for k = 0, 1 and
\* rounds up for k = 2 (33.333333333333336), down for k = 3, up for k = 4.
IntervalErr(k) == CASE k = 2 -> 16 [] k = 3 -> -8 [] k = 4 -> 1 [] OTHER -> 0

\* Math.floor(x / (300 / 3 ** k)) for an integer x >= 0, as the doubles
\* compute it.  The quotient x / s, s the double above, is q / (1 + e) with
\* q = x * 3^k / 300.  Off a cell boundary q is at least 1/300 away from the
\* next integer and the floor is the exact one.  On a boundary (q an
\* integer) with e > 0 the quotient lies q * e below q and rounds to the
\* double below q, so that the floor is q - 1, exactly when q * e exceeds
\* half the spacing of the doubles below q.
ExactFloorQuotient(x, k) == (x * 3^k) \div 300
FloorQuotient(x, k) ==
    LET q == (x * 3^k) \div 300
        L == FloorLog2(q)
        onBoundary == (x * 3^k) % 300 = 0
        roundsBelow == /\ q > 0
                       /\ onBoundary
                       /\ IntervalErr(k) * q * (IF q = 2^L THEN 2 ELSE 1) > 25 * 2^L
    IN IF roundsBelow THEN q - 1 ELSE q

\* the sub-keypad digit of level k: 10 - (subY + 1) * 3 + floor(x / s_k) % 3
SubNumberRowMajor(x, y, k) ==
    1 + (FloorQuotient(y, k) % 3) * 3 + (FloorQuotient(x, k) % 3)
SubNumber(x, y, k) ==
    10 - ((FloorQuotient(y, k) % 3) + 1) * 3 + (FloorQuotient(x, k) % 3)

\* the string for outside of min bounds
ShortSentinelKP == <<"X", "X", "X">>
SentinelKP == <<"X", "X", "X", "-", "X", "-", "X">>

\* The switch on precision.  precision2 is twice the precision, so that the
\* fractional zooms of a map with zoomSnap 0 are values too; a case label
\* matches by ===.
UncappedSubCount(precision2) ==
    IF precision2 % 2 = 0 /\ precision2 >= 6 THEN (precision2 \div 2) - 2
    ELSE IF precision2 \in {0, 2, 4} THEN 0 ELSE 4
SubCount(precision2) ==
    CASE precision2 \in {0, 2, 4} -> 0
      [] precision2 = 6 -> 1
      [] precision2 = 8 -> 2
      [] precision2 = 10 -> 3
      [] OTHER -> 4

\* the template string: letter, padded number, then n sub-keypad digits
KPString(kpLetter, kpNumber2, x, y, n) ==
    JoinDash(<<<<kpLetter>> \o kpNumber2>>
             \o [k \in 1..n |-> NumToString(SubNumber(x, y, k))])

\* the letter of the macro column
NoSkipLetter(kpCharCode) == FromCharCode(kpCharCode)
KpLetter(kpCharCode) ==
    IF kpCharCode > 90 THEN FromCharCode(kpCharCode + 6) ELSE FromCharCode(kpCharCode)

\* if (!precision) precision = globalData.minimap.getZoom()
NoZoomDefault(precision2, zoom2) == precision2
EffectivePrecision(precision2, zoom2) == IF precision2 = 0 THEN zoom2 ELSE precision2

\* getKP(lat, lng, precision) of part_000, with the map's zoom zoom2 (twice
\* the zoom); lat and lng are integers.
getKP(lat, lng, precision2, zoom2) ==
    LET x == lng
        y == lat
    IN IF x < 0 \/ y < 0 THEN SentinelKP
       ELSE LET kpCharCode == 65 + FloorQuotient(x, 0)
                kpNumber == FloorQuotient(y, 0) + 1
            IN KPString(KpLetter(kpCharCode), pad(kpNumber, 2), x, y,
                        SubCount(EffectivePrecision(precision2, zoom2)))

\* squadMinimap.getKP(lat, lng, precision), for lat, lng >= 0 and an integer
\* mapToGameScale
minimapGetKP(lat, lng, precision2, mapToGameScale) ==
    LET x == lng * mapToGameScale
        y == lat * mapToGameScale
        kpNumber == Slice(<<"0", "0", "0", "0">> \o NumToString(FloorQuotient(y, 0) + 1),
                          Len(NumToString(FloorQuotient(y, 0) + 1)) + 2,
                          Len(NumToString(FloorQuotient(y, 0) + 1)) + 4)
        kpCharCode == 65 + FloorQuotient(x, 0)
    IN KPString(FromCharCode(kpCharCode), kpNumber, x, y, SubCount(precision2))

\* ------------------------------------------------------------ geometry
\* The solver works at a fixed resolution: a distance is a whole number of
\* metres (Math.hypot and Math.sqrt round down), an angle a whole multiple
\* of 5 degrees (Math.atan and Math.atan2 round towards 0).  What is exact
\* is when a value is NaN: the square root of a negative number, 0 / 0, and
\* every operation on a NaN.
RECURSIVE ISqrtFrom(_, _, _)
ISqrtFrom(n, lo, hi) ==
    IF lo >= hi THEN lo
    ELSE LET mid == (lo + hi + 1) \div 2
         IN IF mid * mid <= n THEN ISqrtFrom(n, mid, hi) ELSE ISqrtFrom(n, lo, mid - 1)
ISqrt(n) == ISqrtFrom(n, 0, 46340)

\* Math.sqrt
Sqrt(x) == IF x.nan \/ x.v < 0 THEN NaN ELSE Num(ISqrt(x.v))

\* 1000 * tan(5 k degrees), k = 1..17
TanTable == <<87, 176, 268, 364, 466, 577, 700, 839, 1000, 1192, 1428, 1732,
              2145, 2747, 3732, 5671, 11430>>

\* atan(num / den) in degrees for num >= 0 and den > 0
AtanDeg(num, den) ==
    5 * Cardinality({k \in 1..17 : TanTable[k] * den <= 1000 * num})

\* Math.atan(num / den), in degrees, den >= 0: x / 0 is an infinity of the
\* sign of x, whose arc tangent is 90 or -90 degrees, and 0 / 0 is NaN
AtanOfQuotient(num, den) ==
    IF num.nan \/ den.nan THEN NaN
    ELSE IF den.v = 0 THEN (IF num.v = 0 THEN NaN
                            ELSE IF num.v > 0 THEN Num(90) ELSE Num(-90))
    ELSE IF num.v >= 0 THEN Num(AtanDeg(num.v, den.v))
    ELSE Num(-AtanDeg(-num.v, den.v))

\* Math.atan2(y, x), in degrees
Atan2(y, x) ==
    IF y.nan \/ x.nan THEN NaN
    ELSE IF x.v = 0 THEN (IF y.v = 0 THEN Num(0) ELSE IF y.v > 0 THEN Num(90) ELSE Num(-90))
    ELSE IF x.v > 0 THEN AtanOfQuotient(y, x)
    ELSE IF y.v >= 0 THEN Num(180 - AtanDeg(y.v, -x.v))
    ELSE Num(AtanDeg(-y.v, -x.v) - 180)

\* a coordinate of getPos in whole metres
Metres(c) == IF c.nan THEN NaN ELSE Num(c.v \div PosScale)

\* getDist(a, b): Math.hypot(a.lat - b.lat, a.lng - b.lng), in metres
getDist(a, b) ==
    LET dLat == NumAdd(Metres(a.lat), NumMul(Num(-1), Metres(b.lat)))
        dLng == NumAdd(Metres(a.lng), NumMul(Num(-1), Metres(b.lng)))
    IN Sqrt(NumAdd(NumMul(dLat, dLat), NumMul(dLng, dLng)))

\* A lat may carry a part below the unit of the model: tiny, a whole number
\* of 2^-43 metres, exact in a double for every lat below 1024 metres.  The
\* lat and lng of getPos carry none.
TinyOf(c) == IF "tiny" \in DOMAIN c THEN c.tiny ELSE 0

\* The raw bearing Math.atan2(dLng, dLat) * 180 / Math.PI + 90 when the lats
\* differ by -t * 2^-43 metres only, t > 0, and dLng = -D metres, D > 0: b
\* lies a hair past the axis on which the raw bearing is 0, and the raw value
\* is negative by u doubles of the size next to 90 (2^-46 degree).  The
\* arc tangent is -(pi/2 + t * 2^-43 / D) rounded to a double: the double
\* -pi/2 itself for D / t above 2283.3, giving a raw bearing of 0; one or two
\* doubles past it for D / t above 230.2, which the multiplication, the
\* division and the addition of 90 turn into u = 1; further for a smaller
\* D / t, with u >= 3.  The value is -u.
RawUlpsBelowZero(D, t) ==
    IF 10 * D > 22833 * t THEN 0
    ELSE IF 10 * D > 2302 * t THEN -1
    ELSE -3

\* bearing += 360 on such a raw value: 360 - u * 2^-46, rounded to a double.
\* The doubles next to 360 are 2^-44 apart, so u = 1 and u = 2 round to 360
\* and a larger u to a double below 360, 355 at the resolution of the model.
Add360ToUlps(ulps) == IF ulps >= -2 THEN Num(360) ELSE Num(355)

\* getBearing(a, b), in degrees
NoWrapBearing(raw) == raw
WrapBearing(raw) == IF ~raw.nan /\ raw.v < 0 THEN Num(raw.v + 360) ELSE raw
getBearing(a, b) ==
    LET dLng == NumAdd(Metres(b.lng), NumMul(Num(-1), Metres(a.lng)))
        dLat == NumAdd(Metres(b.lat), NumMul(Num(-1), Metres(a.lat)))
        dTiny == TinyOf(b.lat) - TinyOf(a.lat)
    IN IF /\ ~dLng.nan /\ ~dLat.nan
          /\ a.lat.v = b.lat.v /\ dTiny < 0 /\ dLng.v < 0
          /\ RawUlpsBelowZero(-dLng.v, -dTiny) < 0
       THEN Add360ToUlps(RawUlpsBelowZero(-dLng.v, -dTiny))
       ELSE WrapBearing(NumAdd(Atan2(dLng, dLat), Num(90)))

\* ------------------------------------------------------------ weapons
\* The weapon configuration is read through activeWeapon: name, unit,
\* gravityScale, minElevation and angleType are its fields, getVelocity and
\* getAngleType its methods.  A weapon is a record; velocity is in m/s and
\* minElevation1 is minElevation[1], in the weapon's unit.
Gravity == 10    \* globalData.gravity, m/s^2

Weapons ==
    { [name |-> "mortar",    unit |-> "mil", velocity |-> 100, gravityScale |-> 1,
       minElevation1 |-> 1500, angleType |-> "high"],
      [name |-> "UB-32",     unit |-> "deg", velocity |-> 100, gravityScale |-> 2,
       minElevation1 |-> 35, angleType |-> "low"],
      [name |-> "Technical", unit |-> "deg", velocity |-> 100, gravityScale |-> 1,
       minElevation1 |-> 80, angleType |-> "high"],
      [name |-> "BM-21",     unit |-> "deg", velocity |-> 100, gravityScale |-> 1,
       minElevation1 |-> 60, angleType |-> "low"],
      [name |-> "BM-21",     unit |-> "deg", velocity |-> 100, gravityScale |-> 1,
       minElevation1 |-> 60, angleType |-> "high"] }

\* activeWeapon.getVelocity(distance)
getVelocity(weapon, distance) == Num(weapon.velocity)
\* activeWeapon.getAngleType(): -1 for the high arc, 1 for the low one
getAngleType(weapon) == IF weapon.angleType = "high" THEN -1 ELSE 1

\* ------------------------------------------------------------ solver
\* vel ** 4 - gravity * (gravity * dist ** 2 + 2 * vDelta * vel ** 2)
Discriminant(dist, vDelta, vel, gravity) ==
    NumAdd(NumMul(NumMul(vel, vel), NumMul(vel, vel)),
           NumMul(Num(-gravity),
                  NumAdd(NumMul(Num(gravity), NumMul(dist, dist)),
                         NumMul(Num(2), NumMul(vDelta, NumMul(vel, vel))))))

\* the angle of both getElevation and getElevationWithEllipseParams, in
\* degrees: atan((vel ** 2 - P1 * angleType) / (gravity * dist))
ElevationAngle(dist, vDelta, vel, gravity, angleType) ==
    LET P1 == Sqrt(Discriminant(dist, vDelta, vel, gravity))
    IN AtanOfQuotient(NumAdd(NumMul(vel, vel), NumMul(P1, Num(-angleType))),
                      NumMul(Num(gravity), dist))

getElevation(dist, vDelta, vel, weapon) ==
    ElevationAngle(dist, vDelta, vel, Gravity * weapon.gravityScale, getAngleType(weapon))

\* the elevationAngle of getElevationWithEllipseParams's result
getElevationWithEllipseParams(dist, vDelta, vel, weapon) ==
    [elevationAngle |->
        ElevationAngle(dist, vDelta, vel, Gravity * weapon.gravityScale, getAngleType(weapon))]

\* Converted elevations are held in ninths of the weapon's unit.
\* radToDeg(rad) = rad * 180 / PI
radToDeg(rad) == NumMul(rad, Num(9))
\* degToMil(deg) = deg / (360 / 6400)
degToMil(deg) == IF deg.nan THEN NaN ELSE Num((deg.v * 6400) \div 360)
\* radToMil(rad) = degToMil(radToDeg(rad))
radToMil(rad) == degToMil(radToDeg(rad))

\* the conversion of the solved angle to the weapon's unit, with the
\* correction of the Technical
ConvertElevation(elevation, weapon) ==
    IF weapon.unit = "mil" THEN radToMil(elevation)
    ELSE IF weapon.name = "Technical" THEN NumAdd(radToDeg(elevation), Num(-5 * 9))
    ELSE radToDeg(elevation)

\* elevation > globalData.activeWeapon.minElevation[1]; false on NaN
AboveMinElevation(elevation, weapon) ==
    ~elevation.nan /\ elevation.v > weapon.minElevation1 * 9

\* ------------------------------------------------------------ maps
\* MAPS, globalData.activeMap and the canvas that holds the heightmap of the
\* active map.  A map has a size (metres), an offset, a scaling and the
\* heightmap drawn on the canvas: three vertical bands of one colour each,
\* given by their red and blue channels; a black band is land off the
\* playable area.  activeMap is an index into MAPS, or nothing before a map is
\* selected; the code takes a map for selected when activeMap is truthy, and
\* the index 0, held as a number, is no more truthy than nothing.
CanvasSize == 300    \* globalData.canvas.size, pixels

MAPS ==
    << [size |-> 900, offset |-> <<0, 0>>, scaling |-> 1,
        bands |-> <<[r |-> 0, b |-> 20], [r |-> 10, b |-> 0], [r |-> 0, b |-> 0]>>],
       [size |-> 900, offset |-> <<0, 0>>, scaling |-> 1,
        bands |-> <<[r |-> 0, b |-> 20], [r |-> 10, b |-> 0], [r |-> 0, b |-> 0]>>],
       [size |-> 600, offset |-> <<30, 0>>, scaling |-> 2,
        bands |-> <<[r |-> 5, b |-> 0], [r |-> 0, b |-> 5], [r |-> 3, b |-> 3]>>] >>

NoActiveMap == [selected |-> FALSE, index |-> 0]
ActiveMap(i) == [selected |-> TRUE, index |-> i]
ActiveMaps == {NoActiveMap} \cup {ActiveMap(i) : i \in 0..(Len(MAPS) - 1)}

\* !globalData.activeMap: nothing selected, or the index 0
NeverNotActiveMap(activeMap) == FALSE
NotActiveMap(activeMap) == ~activeMap.selected \/ activeMap.index = 0
\* MAPS.find((elem, index) => index == globalData.activeMap)
FindMap(activeMap) == MAPS[activeMap.index + 1]

RECURSIVE GCD(_, _)
GCD(a, b) == IF b = 0 THEN a ELSE GCD(b, a % b)

\* Math.round(num / den) for den > 0: halves round up
RoundQuotient(num, den) == (2 * num + den) \div (2 * den)

\* Math.round of one coordinate of getOffsetLatLng(pos):
\* (c + offset * mapScale) * mapScale with mapScale = canvas.size / size,
\* c in units of 1/PosScale.  A NaN converts to the pixel index 0.
OffsetPixel(c, offset, size) ==
    LET g == GCD(CanvasSize, size)
        sn == CanvasSize \div g
        sd == size \div g
    IN IF c.nan THEN 0
       ELSE RoundQuotient(c.v * sn * sd + offset * sn * sn * PosScale, sd * sd * PosScale)

\* ctx.getImageData(x, y, 1, 1).data: the pixel of the heightmap, and
\* transparent black outside of the canvas
ImageData(map, x, y) ==
    IF x < 0 \/ x >= CanvasSize \/ y < 0 \/ y >= CanvasSize THEN [r |-> 0, b |-> 0]
    ELSE map.bands[((3 * x) \div CanvasSize) + 1]

\* getHeight's result: 0 or a difference of heights, AERROR or BERROR
Height(v) == [err |-> "none", v |-> v]
HeightError(e) == [err |-> e, v |-> 0]

\* the test of a pixel for out of canvas
IsRedMissing(pixel) == pixel.r = 0
IsOutOfCanvas(pixel) == pixel.b = 0 /\ pixel.r = 0

getHeight(a, b, activeMap) ==
    IF NotActiveMap(activeMap) THEN Height(0)
    ELSE LET map == FindMap(activeMap)
             Aheight == ImageData(map, OffsetPixel(a.lat, map.offset[1], map.size),
                                       OffsetPixel(a.lng, map.offset[2], map.size))
             Bheight == ImageData(map, OffsetPixel(b.lat, map.offset[1], map.size),
                                       OffsetPixel(b.lng, map.offset[2], map.size))
         IN IF IsOutOfCanvas(Aheight) THEN HeightError("AERROR")
            ELSE IF IsOutOfCanvas(Bheight) THEN HeightError("BERROR")
            ELSE Height((255 + Bheight.r - Bheight.b) * map.scaling
                        - (255 + Aheight.r - Aheight.b) * map.scaling)

\* ------------------------------------------------------------ the calculator UI
\* What shoot reads and writes of the page: the two inputs, the classes of
\* the settings box, the message, the two result numbers, the save button,
\* the copy cursor and the high/low icon.
NoMessage == [text |-> "-", withDistance |-> FALSE, distance |-> Num(0)]
Message(text) == [text |-> text, withDistance |-> FALSE, distance |-> Num(0)]
\* msg + distance.toFixed(0) + "m"
MessageWithDistance(text, distance) ==
    [text |-> text, withDistance |-> TRUE, distance |-> distance]

Placeholder == [shown |-> "x", v |-> Num(0)]
Shown(n) == [shown |-> "number", v |-> n]

InitialUI ==
    [mortarVal |-> <<>>, targetVal |-> <<>>, border |-> "#fff",
     mortarError2 |-> FALSE, targetError2 |-> FALSE, resultsHidden |-> FALSE,
     errorMsg |-> NoMessage, saveHidden |-> TRUE, highlowActive |-> FALSE,
     highlowIcon |-> "none", copy |-> TRUE,
     bearingNum |-> Placeholder, elevationNum |-> Placeholder]

resetCalc(u) ==
    [u EXCEPT !.border = "#fff", !.targetError2 = FALSE, !.mortarError2 = FALSE,
              !.resultsHidden = FALSE, !.errorMsg = NoMessage, !.saveHidden = TRUE,
              !.highlowActive = FALSE, !.copy = TRUE]

showError(u, msg, issue) ==
    [u EXCEPT !.mortarError2 = (u.mortarError2 \/ issue # "target"),
              !.targetError2 = (u.targetError2 \/ issue # "mortar"),
              !.resultsHidden = TRUE, !.errorMsg = msg, !.copy = FALSE,
              !.border = "firebrick"]

insertCalc(u, weapon, bearing, elevation) ==
    [u EXCEPT !.bearingNum = Shown(bearing), !.elevationNum = Shown(elevation),
              !.highlowIcon = (IF getAngleType(weapon) = -1 THEN "fa-sort-amount-up"
                               ELSE "fa-sort-amount-down"),
              !.highlowActive = (weapon.name # "mortar" /\ weapon.name # "UB-32"),
              !.saveHidden = FALSE]

\* the value an input holds after val(formatKeyPad(x)); val(undefined)
\* leaves it as it is
ValAfterFormat(x) == IF formatKeyPad(x).undef THEN x ELSE formatKeyPad(x).s

\* What one call of shoot did: the positions it decoded, whether it went on
\* to getHeight and to insertCalc, the converted elevation, what it returned;
\* and, when the call before it was one of changeHighLow, the angle type the
\* weapon had when changeHighLow was entered.
NoShot ==
    [called |-> FALSE, ret |-> "none", toggledFrom |-> "none", decoded |-> FALSE,
     aPos |-> Point(Num(0), Num(0)), bPos |-> Point(Num(0), Num(0)),
     heightLookup |-> FALSE, height |-> Height(0), solved |-> FALSE,
     elevation |-> Num(0), inserted |-> FALSE]

\* the test of shoot on a decoded position
InvalidPos(pos) == IsNaN(pos.lng)

\* the test of shoot on the converted elevation
NeverTooClose(elevation, weapon) == FALSE
TooClose(elevation, weapon) == AboveMinElevation(elevation, weapon)

\* shoot(): the page and the record of the call, after it returns
shoot(u0, weapon, activeMap) ==
    LET a == u0.mortarVal
        b == u0.targetVal
        u1 == [resetCalc(u0) EXCEPT !.mortarVal = ValAfterFormat(a),
                                    !.targetVal = ValAfterFormat(b)]
        s1 == [NoShot EXCEPT !.called = TRUE, !.ret = "1"]
    IN
    IF Len(a) < 3 \/ Len(b) < 3
    THEN [ui |-> [u1 EXCEPT !.copy = FALSE, !.bearingNum = Placeholder,
                            !.elevationNum = Placeholder],
          shot |-> s1]
    ELSE
    LET aPos == getPos(a)
        bPos == getPos(b)
        s2 == [s1 EXCEPT !.decoded = TRUE, !.aPos = aPos, !.bPos = bPos]
    IN
    IF InvalidPos(aPos) \/ InvalidPos(bPos)
    THEN [ui |-> IF InvalidPos(aPos) /\ InvalidPos(bPos)
                 THEN showError(u1, Message("Invalid mortar and target"), "both")
                 ELSE IF InvalidPos(aPos)
                 THEN showError(u1, Message("Invalid mortar"), "mortar")
                 ELSE showError(u1, Message("Invalid target"), "target"),
          shot |-> s2]
    ELSE
    LET height == getHeight(aPos, bPos, activeMap)
        s3 == [s2 EXCEPT !.heightLookup = TRUE, !.height = height]
    IN
    IF height.err # "none"
    THEN [ui |-> IF height.err = "AERROR"
                 THEN showError(u1, Message("Mortar is out of map"), "mortar")
                 ELSE showError(u1, Message("Target is out of map"), "target"),
          shot |-> s3]
    ELSE
    LET distance == getDist(aPos, bPos)
        bearing == getBearing(aPos, bPos)
        vel == getVelocity(weapon, distance)
        elevation == ConvertElevation(getElevation(distance, Num(height.v), vel, weapon),
                                      weapon)
        s4 == [s3 EXCEPT !.solved = TRUE, !.elevation = elevation]
    IN
    IF IsNaN(elevation)
    THEN [ui |-> showError(u1, MessageWithDistance("Target is out of range : ", distance),
                           "target"),
          shot |-> s4]
    ELSE IF TooClose(elevation, weapon)
    THEN [ui |-> showError(u1, MessageWithDistance("Target is too close : ", distance),
                           "target"),
          shot |-> s4]
    ELSE [ui |-> insertCalc(u1, weapon, bearing, elevation),
          shot |-> [s4 EXCEPT !.inserted = TRUE, !.ret = "undefined"]]

\* ------------------------------------------------------------ getCalcFromUI
\* globalData.mapSize, the side of the map widget in its own units
MapSize == 300

\* L.latLng([a.lng * mapScale, a.lat * -mapScale]), mapScale = size / mapSize
MarkerToGame(m, map) ==
    Point(Num((m.lng * map.size * PosScale) \div MapSize),
          Num((-m.lat * map.size * PosScale) \div MapSize))

\* the elevation of getCalcFromUI's result: the string of three dashes, or
\* the number of elevation.toFixed
Dashes == [dashes |-> TRUE, v |-> Num(0)]
Fixed(n) == [dashes |-> FALSE, v |-> n]

NoCalc(a, b) ==
    [fn |-> "none", a |-> a, b |-> b, throws |-> FALSE, converted |-> Num(0),
     bearing |-> Num(0), distance |-> Num(0), elevation |-> Dashes]

\* getCalcFromUI(a, b); with no map selected MAPS.find returns undefined and
\* reading its size throws
getCalcFromUI(a, b, weapon, activeMap) ==
    IF ~activeMap.selected
    THEN [NoCalc(a, b) EXCEPT !.fn = "getCalcFromUI", !.throws = TRUE]
    ELSE
    LET map == FindMap(activeMap)
        aPos == MarkerToGame(a, map)
        bPos == MarkerToGame(b, map)
        height == getHeight(aPos, bPos, activeMap)
        distance == getDist(aPos, bPos)
        bearing == getBearing(aPos, bPos)
        vel == getVelocity(weapon, distance)
        \* "AERROR" and "BERROR" turn into NaN in the arithmetic of the solver
        vDelta == IF height.err = "none" THEN Num(height.v) ELSE NaN
        elevation ==
            ConvertElevation(
                getElevationWithEllipseParams(distance, vDelta, vel, weapon).elevationAngle,
                weapon)
    IN [fn |-> "getCalcFromUI", a |-> a, b |-> b, throws |-> FALSE,
        converted |-> elevation, bearing |-> bearing, distance |-> distance,
        elevation |-> IF IsNaN(elevation) \/ AboveMinElevation(elevation, weapon)
                      THEN Dashes ELSE Fixed(elevation)]

\* ------------------------------------------------------------ inputs
\* Typed keypad strings: every string of at most MaxShortLen characters of
\* ShortAlphabet, and every macro part followed by at most MaxSub sub-keypad
\* tokens, written with or without the dashes.
ShortAlphabet == {"A", "a", "@", "1", "-", " "}
FirstChars == {"A", "C", "a", "@"}
NumberPairs == {<<"0", "1">>, <<"0", "2">>, <<"0", "0">>, <<"1", "X">>}
SubTokens == {"0", "1", "3", "5", "7", "9", "X", "a"}

SeqsUpTo(S, n) == UNION {[1..m -> S] : m \in 0..n}

RECURSIVE Concat(_)
Concat(parts) == IF parts = <<>> THEN <<>> ELSE Head(parts) \o Concat(Tail(parts))

MacroParts == {<<c>> \o n : c \in FirstChars, n \in NumberPairs}
StructuredKeypads ==
    UNION {{JoinDash(<<m>> \o [i \in 1..Len(subs) |-> <<subs[i]>>]),
            m \o subs} : m \in MacroParts, subs \in SeqsUpTo(SubTokens, MaxSub)}
\* dashed strings whose last group holds a dash, alone or before a digit
DashGroupKeypads ==
    { <<"A", "0", "1", "-", "-">>, <<"A", "0", "1", "-", "5", "-", "-">>,
      <<"A", "0", "1", "-", "-", "-", "5">> }
TypedKeypads ==
    SeqsUpTo(ShortAlphabet, MaxShortLen) \cup StructuredKeypads \cup DashGroupKeypads

\* Points of the map, in game units: each macro cell's corner, points next
\* to the boundaries of its sub-cells, its far corner; and points left of
\* and above the map.
CellOffsets == {0, 34, 100, 200, 299}
XCoords == {c * 300 + o : c \in 0..MaxCol, o \in CellOffsets} \cup {-1, -450}
YCoords == {r * 300 + o : r \in 0..MaxRow, o \in CellOffsets} \cup {-1, -450}
Precisions == 0..MaxPrecision
\* twice the zooms the map can rest at, minZoom to maxZoom in steps of 1/2
ZoomHalves == (2 * MinZoom)..(2 * MaxZoom)

\* ------------------------------------------------------------ minimap
\* The minimap, as far as its image layer and its heatmap go.  A heatmap
\* layer is named by the number of the fetch whose answer built it, an image
\* layer by the number of the changeLayer call that built it; NoLayer stands
\* for null and undefined.  spinOn and spinOff count the calls of spin(true)
\* and of spin(false).
NoLayer == 0
\* what the service answers to fetchMarkersByMap
MarkerSets == {"no markers", "markers"}

MinimapIdle ==
    [helpmapActive |-> FALSE, spinOn |-> 0, spinOff |-> 0, toasts |-> 0,
     heatmap |-> NoLayer, heatLayers |-> {}, pending |-> {}, fetches |-> 0,
     activeLayer |-> NoLayer, imageLayers |-> {}, loads |-> {}, fades |-> {},
     layerChanges |-> 0]

\* this.spin(state)
spin(m, state) ==
    IF state THEN [m EXCEPT !.spinOn = @ + 1] ELSE [m EXCEPT !.spinOff = @ + 1]

\* new webGLHeatmap(...) with setData(markers), built by the answer to fetch f
HeatLayer(f, answer) == [id |-> f, data |-> answer]

\* this.heatmap.remove() and this.removeLayer(this.heatmap): the layer leaves
\* the map if it is on it
RemoveHeatmap(m) == [m EXCEPT !.heatLayers = {l \in @ : l.id # m.heatmap}]

\* toggleHeatmap(), up to the return of the call: with the button active it
\* starts the spinner, takes the referenced layer off the map and starts a
\* fetch; otherwise it takes the referenced layer off and forgets it
toggleHeatmap(m) ==
    IF m.helpmapActive
    THEN LET m1 == spin(m, TRUE)
             m2 == IF m1.heatmap # NoLayer THEN RemoveHeatmap(m1) ELSE m1
         IN [m2 EXCEPT !.fetches = @ + 1, !.pending = @ \cup {m2.fetches + 1}]
    ELSE IF m.heatmap # NoLayer
         THEN [RemoveHeatmap(m) EXCEPT !.heatmap = NoLayer]
         ELSE m

\* the then-callback of fetch f
OnMarkers(m, f, answer) ==
    spin([m EXCEPT !.heatmap = f, !.heatLayers = @ \cup {HeatLayer(f, answer)},
                   !.pending = @ \ {f}],
         FALSE)

\* the catch-callback of fetch f
OnFetchErrorKeepsButton(m, f) ==
    [spin(m, FALSE) EXCEPT !.toasts = @ + 1, !.pending = @ \ {f}]
OnFetchError(m, f) ==
    [spin(m, FALSE) EXCEPT !.helpmapActive = FALSE, !.toasts = @ + 1,
                           !.pending = @ \ {f}]

\* changeLayer(), up to the return of the call: the spinner, the new image
\* layer and the load handler that remembers OLDLAYER
changeLayer(m) ==
    LET new == m.layerChanges + 1
    IN [spin(m, TRUE) EXCEPT !.activeLayer = new, !.imageLayers = @ \cup {new},
                             !.loads = @ \cup {[layer |-> new, old |-> m.activeLayer]},
                             !.layerChanges = new]

\* the load handler of an image layer: the spinner off, the fade-in started
OnLayerLoad(m, l) ==
    [spin(m, FALSE) EXCEPT !.loads = @ \ {l}, !.fades = @ \cup {l}]

\* the callback at the end of the fade-in: OLDLAYER removed, toggleHeatmap()
OnFadeIn(m, l) ==
    toggleHeatmap([m EXCEPT !.fades = @ \ {l},
                            !.imageLayers = IF l.old # NoLayer THEN @ \ {l.old} ELSE @])

\* a click of the heatmap button: the button changes state, toggleHeatmap()
OnHelpmapClick(m) == toggleHeatmap([m EXCEPT !.helpmapActive = ~@])

\* What the last call of toggleHeatmap and the last settled fetch did, as
\* differences between the minimap before and after.
NoToggle == [called |-> FALSE, wasActive |-> FALSE, spinOn |-> 0, started |-> {}]
NoSettle ==
    [called |-> FALSE, id |-> NoLayer, ok |-> FALSE, markers |-> "no markers",
     spinOff |-> 0, toasts |-> 0, added |-> {}, activeAfter |-> FALSE]
NoHeatLog == [toggle |-> NoToggle, settle |-> NoSettle]
ToggleLog(m, m2, wasActive) ==
    [called |-> TRUE, wasActive |-> wasActive, spinOn |-> m2.spinOn - m.spinOn,
     started |-> m2.pending \ m.pending]
SettleLog(m, m2, f, ok, answer) ==
    [called |-> TRUE, id |-> f, ok |-> ok, markers |-> answer,
     spinOff |-> m2.spinOff - m.spinOff, toasts |-> m2.toasts - m.toasts,
     added |-> m2.heatLayers \ m.heatLayers, activeAfter |-> m2.helpmapActive]

\* ------------------------------------------------------------ markers
\* The markers of the minimap.  made holds the markers created so far, a
\* marker being named by its place in made; markersGroup and
\* activeWeaponsMarkers hold the names of the markers added to them, in the
\* order of addition.  The group of the active targets is filled by the
\* constructor of the target marker, which is not part of these handlers.
TilesSize == 300     \* this.tilesSize, the side of the image in map units
LatLng(lat, lng) == [lat |-> lat, lng |-> lng]

NoClick == [called |-> FALSE, handler |-> "none", latlng |-> LatLng(0, 0),
            weaponsBefore |-> 0, created |-> <<>>]
MarkersIdle ==
    [made |-> <<>>, markersGroup |-> <<>>, activeWeaponsMarkers |-> <<>>,
     deleteShown |-> FALSE, last |-> NoClick]

\* the test of both handlers: e.latlng.lat > 0 || e.latlng.lat < -this.tilesSize
\* || e.latlng.lng < 0 || e.latlng.lng > this.tilesSize
OutOfBoundsLatOnly(latlng) == latlng.lat > 0 \/ latlng.lat < -TilesSize
OutOfBounds(latlng) ==
    latlng.lat > 0 \/ latlng.lat < -TilesSize \/ latlng.lng < 0 \/ latlng.lng > TilesSize

\* new squadWeaponMarker(latlng, {icon}, this).addTo(this.markersGroup)
\*     .addTo(this.activeWeaponsMarkers)
AddWeaponMarker(m, latlng, icon) ==
    LET id == Len(m.made) + 1
    IN [m EXCEPT !.made = Append(@, [kind |-> "weapon", icon |-> icon, latlng |-> latlng]),
                 !.markersGroup = Append(@, id),
                 !.activeWeaponsMarkers = Append(@, id)]

\* new squadTargetMarker(latlng, {animate}, this).addTo(this.markersGroup)
AddTargetMarker(m, latlng) ==
    LET id == Len(m.made) + 1
    IN [m EXCEPT !.made = Append(@, [kind |-> "target", icon |-> "target", latlng |-> latlng]),
                 !.markersGroup = Append(@, id)]

\* _handleContextMenu(e)
handleContextMenu(m, latlng) ==
    IF OutOfBounds(latlng) THEN m
    ELSE IF Len(m.activeWeaponsMarkers) = 0
    THEN AddWeaponMarker(m, latlng, "mortarIcon")
    ELSE IF Len(m.activeWeaponsMarkers) = 1
    THEN LET m1 == AddWeaponMarker(m, latlng, "mortarIcon2")
         IN [m1 EXCEPT !.made[m1.activeWeaponsMarkers[1]].icon = "mortarIcon1"]
    ELSE m

\* _handleDoubleCkick(e)
handleDoubleCkick(m, latlng) ==
    IF OutOfBounds(latlng) THEN m
    ELSE IF Len(m.activeWeaponsMarkers) = 0
    THEN AddWeaponMarker(m, latlng, "mortarIcon")
    ELSE [AddTargetMarker(m, latlng) EXCEPT !.deleteShown = TRUE]

\* clear(): every group emptied, the delete button hidden
clearMarkers(m) ==
    [m EXCEPT !.markersGroup = <<>>, !.activeWeaponsMarkers = <<>>, !.deleteShown = FALSE]

\* what a call of a handler did: the markers it created
ClickLog(m, m2, handler, latlng) ==
    [called |-> TRUE, handler |-> handler, latlng |-> latlng,
     weaponsBefore |-> Len(m.activeWeaponsMarkers),
     created |-> SubSeq(m2.made, Len(m.made) + 1, Len(m2.made))]

\* ------------------------------------------------------------ saved calcs
\* The list of the saved calcs, .saved_list p, and the panel #saved around
\* it.  A row holds the placeholder of its input and the text of its span;
\* id tells the rows of equal text apart.
SavedRows == 4
NoSave == [called |-> FALSE, before |-> <<>>, row |-> 0]
SavesIdle == [list |-> <<>>, hidden |-> TRUE, count |-> 0, last |-> NoSave]

SavedRow(id, u) ==
    [id |-> id, placeholder |-> u.targetVal, bearing |-> u.bearingNum,
     elevation |-> u.elevationNum]

\* the list without its row number i
RemoveAt(list, i) == SubSeq(list, 1, i - 1) \o SubSeq(list, i + 1, Len(list))

\* saveCalc()
saveCalcNoEviction(s, u) ==
    [s EXCEPT !.list = Append(@, SavedRow(s.count + 1, u)), !.hidden = FALSE,
              !.count = @ + 1]
saveCalc(s, u) ==
    [s EXCEPT !.list = Append(IF Len(@) = SavedRows THEN Tail(@) ELSE @,
                              SavedRow(s.count + 1, u)),
              !.hidden = FALSE, !.count = @ + 1]

\* RemoveSaves(a), a being the delete icon of row number i
RemoveSaves(s, i) ==
    [s EXCEPT !.hidden = IF Len(s.list) = 1 THEN TRUE ELSE @,
              !.list = RemoveAt(@, i)]

\* ------------------------------------------------------------ state
VARIABLES
    kpText,        \* the keypad string at hand: typed, or the last one encoded
    call,          \* the arguments of the pending call of a pure function
    out,           \* the result of the last decoder, formatter or solver call
    ui,            \* the page of the calculator
    activeWeapon,  \* globalData.activeWeapon
    activeMap,     \* globalData.activeMap
    shot,          \* what the last call of shoot did
    calc,          \* the markers of the map widget and getCalcFromUI's result
    minimap,       \* the image layer and the heatmap of the minimap
    heatLog,       \* what the last toggleHeatmap and the last settled fetch did
    markers,       \* the markers of the minimap and what the last click did
    saves          \* the saved calcs and what the last saveCalc did

codecVars == <<kpText, call, out>>
heatVars == <<minimap, heatLog>>
mapVars == <<minimap, heatLog, markers, saves>>
appVars == <<ui, activeWeapon, activeMap, shot, calc, minimap, heatLog, markers, saves>>
vars == <<kpText, call, out, ui, activeWeapon, activeMap, shot, calc, minimap, heatLog,
          markers, saves>>

NoCall == [fn |-> "none", lat |-> 0, lng |-> 0, precision2 |-> 0, zoom2 |-> 0]
NoOut == [fn |-> "none", pos |-> Point(Num(0), Num(0)), fmt |-> Undefined]
NoMarker == [lat |-> 0, lng |-> 0]
Mortar == CHOOSE w \in Weapons : w.name = "mortar"

\* the calculator as it is loaded, with nothing typed
AppIdle ==
    /\ ui = InitialUI
    /\ activeWeapon = Mortar
    /\ activeMap = NoActiveMap
    /\ shot = NoShot
    /\ calc = NoCalc(NoMarker, NoMarker)
    /\ minimap = MinimapIdle
    /\ heatLog = NoHeatLog
    /\ markers = MarkersIdle
    /\ saves = SavesIdle

\* ---- the keypad decoder and formatter on a typed string
\* the user has typed (or pasted) a keypad string
KeypadInit ==
    /\ kpText \in TypedKeypads
    /\ call = NoCall
    /\ out = NoOut
    /\ AppIdle

\* getPos(kpText)
Decode ==
    /\ out.fn = "none"
    /\ out' = [fn |-> "getPos", pos |-> getPos(kpText), fmt |-> Undefined]
    /\ UNCHANGED <<kpText, call>>
    /\ UNCHANGED appVars

\* formatKeyPad(kpText)
Format ==
    /\ out.fn = "none"
    /\ call.fn = "none"
    /\ out' = [fn |-> "formatKeyPad", pos |-> Point(Num(0), Num(0)),
               fmt |-> formatKeyPad(kpText)]
    /\ UNCHANGED <<kpText, call>>
    /\ UNCHANGED appVars

KeypadNext ==
    \/ Decode
    \/ Format

SpecKeypad == KeypadInit /\ [][KeypadNext]_vars

\* ---- the encoders, and the decoder on what they return
\* The arguments of a call of an encoder.  zoom2 is the zoom the map rests
\* at; getKP reads it only when precision is falsy.
EncodeInit ==
    /\ kpText = <<>>
    /\ \E lat \in YCoords, lng \in XCoords, p \in Precisions :
          \E z \in (IF p = 0 THEN ZoomHalves ELSE {2 * MinZoom}) :
             call = [fn |-> "none", lat |-> lat, lng |-> lng,
                     precision2 |-> 2 * p, zoom2 |-> z]
    /\ out = NoOut
    /\ AppIdle

\* getKP(lat, lng, precision) of part_000
Encode ==
    /\ call.fn = "none"
    /\ kpText' = getKP(call.lat, call.lng, call.precision2, call.zoom2)
    /\ call' = [call EXCEPT !.fn = "getKP"]
    /\ UNCHANGED out
    /\ UNCHANGED appVars

\* squadMinimap.getKP(lat, lng, precision) with mapToGameScale = 1, called
\* with a position on the map
MinimapEncode ==
    /\ call.fn = "none"
    /\ call.lat >= 0 /\ call.lng >= 0
    /\ kpText' = minimapGetKP(call.lat, call.lng, call.precision2, 1)
    /\ call' = [call EXCEPT !.fn = "minimap.getKP"]
    /\ UNCHANGED out
    /\ UNCHANGED appVars

\* getPos of the encoded string
DecodeEncoded ==
    /\ call.fn # "none"
    /\ Decode

EncodeNext ==
    \/ Encode
    \/ MinimapEncode
    \/ DecodeEncoded

SpecEncode == EncodeInit /\ [][EncodeNext]_vars

\* ---- the solver on its own
\* The arguments of a call of the solver: a distance, a height difference
\* and a velocity; the gravity and the angle type come from activeWeapon.
Distances == {0, 1} \cup {100 * k : k \in 1..MaxDistSteps}
HeightDeltas == {-30, 0, 30}
Velocities == {10, 100}

NoAngle == [fn |-> "none", angle |-> Num(0)]

SolverInit ==
    /\ kpText = <<>>
    /\ \E dist \in Distances, vDelta \in HeightDeltas, vel \in Velocities :
          call = [fn |-> "none", dist |-> dist, vDelta |-> vDelta, vel |-> vel]
    /\ out = NoAngle
    /\ ui = InitialUI
    /\ activeWeapon \in Weapons
    /\ activeMap = NoActiveMap
    /\ shot = NoShot
    /\ calc = NoCalc(NoMarker, NoMarker)
    /\ minimap = MinimapIdle
    /\ heatLog = NoHeatLog
    /\ markers = MarkersIdle
    /\ saves = SavesIdle

\* getElevation(dist, vDelta, vel)
SolveElevation ==
    /\ out.fn = "none"
    /\ out' = [fn |-> "getElevation",
               angle |-> getElevation(Num(call.dist), Num(call.vDelta), Num(call.vel),
                                      activeWeapon)]
    /\ UNCHANGED <<kpText, call>>
    /\ UNCHANGED appVars

\* getElevationWithEllipseParams(dist, vDelta, vel).elevationAngle
SolveElevationWithEllipseParams ==
    /\ out.fn = "none"
    /\ out' = [fn |-> "getElevationWithEllipseParams",
               angle |-> getElevationWithEllipseParams(
                             Num(call.dist), Num(call.vDelta), Num(call.vel),
                             activeWeapon).elevationAngle]
    /\ UNCHANGED <<kpText, call>>
    /\ UNCHANGED appVars

SolverNext ==
    \/ SolveElevation
    \/ SolveElevationWithEllipseParams

SpecSolver == SolverInit /\ [][SolverNext]_vars

\* ---- the bearing on its own
\* Two points in whole metres, the lat with a part below the unit: the same
\* point twice, every quadrant of b relative to a, and points on either
\* side of an axis by less than the unit.
BearingLats == {0, 100, 300}
BearingLngs == {0, 100, 300, 1000, 3000}
BearingPoints ==
    { [lat |-> [nan |-> FALSE, v |-> lat * PosScale, tiny |-> tiny],
       lng |-> Num(lng * PosScale)] :
          lat \in BearingLats, tiny \in (-MaxTiny)..MaxTiny, lng \in BearingLngs }

NoBearing == [fn |-> "none", bearing |-> Num(0)]

BearingInit ==
    /\ kpText = <<>>
    /\ \E a \in BearingPoints, b \in BearingPoints :
          call = [fn |-> "none", a |-> a, b |-> b]
    /\ out = NoBearing
    /\ AppIdle

\* getBearing(a, b)
Bearing ==
    /\ out.fn = "none"
    /\ out' = [fn |-> "getBearing", bearing |-> getBearing(call.a, call.b)]
    /\ UNCHANGED <<kpText, call>>
    /\ UNCHANGED appVars

BearingNext == Bearing

SpecBearing == BearingInit /\ [][BearingNext]_vars

\* ---- the height lookup on its own
\* Two points in game units, on the three bands of the heightmap, off the
\* canvas on either side, and with a NaN lat; and the active map.
HeightPoints ==
    { Point(Num(lat * PosScale), Num(lng * PosScale)) :
          lat \in {-150, 150, 450, 750, 1050}, lng \in {-150, 150, 1050} }
    \cup { Point(NaN, Num(150 * PosScale)) }

NoHeight == [fn |-> "none", height |-> Height(0)]

HeightInit ==
    /\ kpText = <<>>
    /\ \E a \in HeightPoints, b \in HeightPoints :
          call = [fn |-> "none", a |-> a, b |-> b]
    /\ out = NoHeight
    /\ ui = InitialUI
    /\ activeWeapon = Mortar
    /\ activeMap \in ActiveMaps
    /\ shot = NoShot
    /\ calc = NoCalc(NoMarker, NoMarker)
    /\ minimap = MinimapIdle
    /\ heatLog = NoHeatLog
    /\ markers = MarkersIdle
    /\ saves = SavesIdle

\* getHeight(a, b)
GetHeight ==
    /\ out.fn = "none"
    /\ out' = [fn |-> "getHeight", height |-> getHeight(call.a, call.b, activeMap)]
    /\ UNCHANGED <<kpText, call>>
    /\ UNCHANGED appVars

HeightNext == GetHeight

SpecHeight == HeightInit /\ [][HeightNext]_vars

\* ---- the calculator: shoot, changeHighLow and getCalcFromUI
\* What the user has typed in the two inputs: too short, valid cells at
\* several distances, and strings getPos cannot decode on one axis or both.
ShootKeypads ==
    { <<>>, <<"A", "0">>, <<"A", "0", "1">>, <<"B", "0", "1">>,
      <<"A", "0", "4">>, <<"A", "0", "5">>, <<"@", "0", "1">>,
      <<"A", "1", "X">>, <<"-", "-", "-">>, <<"a", "0", "1", "7">> }

\* Two markers of the map widget, in its own units
Marker(lat, lng) == [lat |-> lat, lng |-> lng]
MarkerPairs ==
    { <<Marker(-50, 50), Marker(-50, 50)>>, <<Marker(-50, 50), Marker(-50, 150)>>,
      <<Marker(-50, 50), Marker(-250, 50)>>, <<Marker(-50, 50), Marker(-290, 290)>>,
      <<Marker(-50, 250), Marker(-50, 50)>> }

ShootInit ==
    /\ kpText = <<>>
    /\ call = NoCall
    /\ out = NoOut
    /\ \E a \in ShootKeypads, b \in ShootKeypads :
          ui = [InitialUI EXCEPT !.mortarVal = a, !.targetVal = b]
    /\ activeWeapon \in Weapons
    /\ activeMap \in ActiveMaps
    /\ shot = NoShot
    /\ \E m \in MarkerPairs : calc = NoCalc(m[1], m[2])
    /\ minimap = MinimapIdle
    /\ heatLog = NoHeatLog
    /\ markers = MarkersIdle
    /\ saves = SavesIdle

\* shoot(), on an input event of either field
Shoot ==
    /\ ui' = shoot(ui, activeWeapon, activeMap).ui
    /\ shot' = shoot(ui, activeWeapon, activeMap).shot
    /\ UNCHANGED <<activeWeapon, activeMap, calc>>
    /\ UNCHANGED mapVars
    /\ UNCHANGED codecVars

\* changeHighLow(), on a click of the high/low icon; it returns at once for
\* the mortar and the UB-32
ChangeHighLow ==
    /\ IF activeWeapon.name = "mortar" \/ activeWeapon.name = "UB-32"
       THEN /\ shot' = [shot EXCEPT !.toggledFrom = activeWeapon.angleType]
            /\ UNCHANGED <<ui, activeWeapon>>
       ELSE LET isLowAngle == ui.highlowIcon = "fa-sort-amount-up"
                weapon == [activeWeapon EXCEPT
                              !.angleType = IF isLowAngle THEN "low" ELSE "high"]
            IN /\ activeWeapon' = weapon
               /\ ui' = shoot(ui, weapon, activeMap).ui
               /\ shot' = [shoot(ui, weapon, activeMap).shot EXCEPT
                               !.toggledFrom = activeWeapon.angleType]
    /\ UNCHANGED <<activeMap, calc>>
    /\ UNCHANGED mapVars
    /\ UNCHANGED codecVars

\* getCalcFromUI(a, b) on the two markers
GetCalcFromUI ==
    /\ calc.fn = "none"
    /\ calc' = getCalcFromUI(calc.a, calc.b, activeWeapon, activeMap)
    /\ UNCHANGED <<ui, activeWeapon, activeMap, shot>>
    /\ UNCHANGED mapVars
    /\ UNCHANGED codecVars

ShootNext ==
    \/ Shoot
    \/ ChangeHighLow
    \/ GetCalcFromUI

SpecShoot == ShootInit /\ [][ShootNext]_vars

\* ---- the heatmap of the minimap: clicks of its button, changes of the
\* image layer, and the fetches of the markers settling in any order
HeatmapInit ==
    /\ kpText = <<>>
    /\ call = NoCall
    /\ out = NoOut
    /\ AppIdle

HeatmapRest == <<kpText, call, out, ui, activeWeapon, activeMap, shot, calc, markers, saves>>

\* a click of the heatmap button
HelpmapClick ==
    /\ minimap.helpmapActive \/ minimap.fetches < MaxFetches
    /\ minimap' = OnHelpmapClick(minimap)
    /\ heatLog' = [heatLog EXCEPT
                      !.toggle = ToggleLog(minimap, minimap', ~minimap.helpmapActive)]
    /\ UNCHANGED HeatmapRest

\* changeLayer(), on a choice in the layer menu or from draw()
ChangeLayer ==
    /\ minimap.layerChanges < MaxLayerChanges
    /\ minimap' = changeLayer(minimap)
    /\ UNCHANGED heatLog
    /\ UNCHANGED HeatmapRest

\* the image of a layer has loaded
LayerLoaded ==
    /\ \E l \in minimap.loads : minimap' = OnLayerLoad(minimap, l)
    /\ UNCHANGED heatLog
    /\ UNCHANGED HeatmapRest

\* the fade-in of a loaded layer has ended
FadeInDone ==
    /\ ~minimap.helpmapActive \/ minimap.fetches < MaxFetches
    /\ \E l \in minimap.fades : minimap' = OnFadeIn(minimap, l)
    /\ heatLog' = [heatLog EXCEPT
                      !.toggle = ToggleLog(minimap, minimap', minimap.helpmapActive)]
    /\ UNCHANGED HeatmapRest

\* a pending fetch is answered with markers
FetchResolved ==
    /\ \E f \in minimap.pending, answer \in MarkerSets :
          /\ minimap' = OnMarkers(minimap, f, answer)
          /\ heatLog' = [heatLog EXCEPT
                            !.settle = SettleLog(minimap, minimap', f, TRUE, answer)]
    /\ UNCHANGED HeatmapRest

\* a pending fetch fails
FetchRejected ==
    /\ \E f \in minimap.pending :
          /\ minimap' = OnFetchError(minimap, f)
          /\ heatLog' = [heatLog EXCEPT
                            !.settle = SettleLog(minimap, minimap', f, FALSE, "no markers")]
    /\ UNCHANGED HeatmapRest

HeatmapNext ==
    \/ HelpmapClick
    \/ ChangeLayer
    \/ LayerLoaded
    \/ FadeInDone
    \/ FetchResolved
    \/ FetchRejected

SpecHeatmap == HeatmapInit /\ [][HeatmapNext]_vars

\* ---- the markers of the minimap: right-clicks and double-clicks in and
\* out of the image, and clear()
ClickPoints ==
    { LatLng(0, 0), LatLng(-TilesSize, TilesSize),
      LatLng(1, 150), LatLng(-TilesSize - 1, 150),
      LatLng(-150, -1), LatLng(-150, TilesSize + 1) }

MarkersInit ==
    /\ kpText = <<>>
    /\ call = NoCall
    /\ out = NoOut
    /\ AppIdle

MarkersRest ==
    <<kpText, call, out, ui, activeWeapon, activeMap, shot, calc, minimap, heatLog, saves>>

\* a right-click on the minimap
ContextMenu ==
    /\ Len(markers.made) < MaxMarkers
    /\ \E latlng \in ClickPoints :
          LET m2 == handleContextMenu(markers, latlng)
          IN markers' = [m2 EXCEPT !.last = ClickLog(markers, m2, "contextmenu", latlng)]
    /\ UNCHANGED MarkersRest

\* a double-click on the minimap
DoubleClick ==
    /\ Len(markers.made) < MaxMarkers
    /\ \E latlng \in ClickPoints :
          LET m2 == handleDoubleCkick(markers, latlng)
          IN markers' = [m2 EXCEPT !.last = ClickLog(markers, m2, "dblclick", latlng)]
    /\ UNCHANGED MarkersRest

\* clear(), on a change of map
ClearMarkers ==
    /\ markers.markersGroup # <<>>
    /\ markers' = clearMarkers(markers)
    /\ UNCHANGED MarkersRest

MarkersNext ==
    \/ ContextMenu
    \/ DoubleClick
    \/ ClearMarkers

SpecMarkers == MarkersInit /\ [][MarkersNext]_vars

\* ---- the saved calcs: saveCalc and RemoveSaves in any order
SavesInit ==
    /\ kpText = <<>>
    /\ call = NoCall
    /\ out = NoOut
    /\ AppIdle

SavesRest ==
    <<kpText, call, out, ui, activeWeapon, activeMap, shot, calc, minimap, heatLog, markers>>

\* saveCalc(), on a click of the save button
SaveCalc ==
    /\ saves.count < MaxSaves
    /\ LET s2 == saveCalc(saves, ui)
       IN saves' = [s2 EXCEPT !.last = [called |-> TRUE, before |-> saves.list,
                                        row |-> saves.count + 1]]
    /\ UNCHANGED SavesRest

\* RemoveSaves(a), on a click of the delete icon of a row
RemoveSave ==
    /\ \E i \in 1..Len(saves.list) :
          saves' = [RemoveSaves(saves, i) EXCEPT !.last = NoSave]
    /\ UNCHANGED SavesRest

SavesNext ==
    \/ SaveCalc
    \/ RemoveSave

SpecSaves == SavesInit /\ [][SavesNext]_vars

\* ============================================================ claims
\* ---- helpers of the claims, on the raw strings
IsUpperOrLower(c) == c \in {Ascii65[i] : i \in 1..26} \cup {Ascii65[i] : i \in 33..58}
IsDigit(c) == c \in {Digits[i] : i \in 1..10}
IsDigit19(c) == c \in {Digits[i] : i \in 2..10}
DigitOf(c) == CHOOSE d \in 0..9 : Digits[d + 1] = c
\* the index 0..25 of a letter, upper or lower case
LetterIndexOf(c) ==
    LET i == CHOOSE j \in 1..58 : Ascii65[j] = c IN IF i > 32 THEN i - 33 ELSE i - 1

\* the sub-keypad tokens written after the macro part, when the string is
\* the macro part followed by dash-token pairs, or by tokens with no dash
IsDashed(s) == Len(s) > 3 /\ s[4] = "-"
TokensWellPlaced(s) ==
    /\ Len(s) >= 3
    /\ \A i \in 1..3 : s[i] # "-"
    /\ IF IsDashed(s)
       THEN /\ (Len(s) - 3) % 2 = 0
            /\ \A i \in 4..Len(s) : (s[i] = "-") <=> (i % 2 = 0)
       ELSE \A i \in 4..Len(s) : s[i] # "-"
TokensOf(s) ==
    IF IsDashed(s) THEN [i \in 1..((Len(s) - 3) \div 2) |-> s[3 + 2 * i]]
    ELSE [i \in 1..(Len(s) - 3) |-> s[3 + i]]
ValidMacro(s) ==
    /\ TokensWellPlaced(s)
    /\ IsUpperOrLower(s[1]) /\ IsDigit(s[2]) /\ IsDigit(s[3])
WellFormed(s) ==
    /\ ValidMacro(s)
    /\ \A i \in 1..Len(TokensOf(s)) : IsDigit19(TokensOf(s)[i])

RECURSIVE SumTo(_, _)
SumTo(f, n) == IF n = 0 THEN 0 ELSE f[n] + SumTo(f, n - 1)

\* the number of sub-keypad digits of an encoded string: one per dash
SubDigitsOf(kp) == Cardinality({i \in 1..Len(kp) : kp[i] = "-"})

AbsDiff(a, b) == IF a >= b THEN a - b ELSE b - a

Decoded == out.fn = "getPos"
Typed == call.fn = "none"

\* C1: decoding what getKP(lat = y, lng = x, precision) returns, for a point
\* of the map with integer coordinates x, y >= 0 and a precision 0..6, gives
\* a point within one cell width of (x, y) on each axis: getPos's lat within
\* it of x, getPos's lng within it of y, the cell being the deepest one the
\* string names.
C1_RoundTrip ==
    (Decoded /\ call.fn = "getKP" /\ call.lat >= 0 /\ call.lng >= 0
       /\ call.precision2 <= 12)
    => /\ ~out.pos.throws
       /\ ~out.pos.lat.nan /\ ~out.pos.lng.nan
       /\ AbsDiff(out.pos.lat.v, call.lng * PosScale) <= Interval(SubDigitsOf(kpText))
       /\ AbsDiff(out.pos.lng.v, call.lat * PosScale) <= Interval(SubDigitsOf(kpText))

CappedCount(p2) ==
    IF p2 \in {2, 4} THEN 0
    ELSE IF p2 \in {6, 8, 10} THEN (p2 \div 2) - 2
    ELSE 4
C3_CentreOfCell ==
    (Decoded /\ Typed /\ WellFormed(kpText))
    => LET d == [i \in 1..Len(TokensOf(kpText)) |-> DigitOf(TokensOf(kpText)[i])]
           k == Len(d)
           L == LetterIndexOf(kpText[1])
           n == 10 * DigitOf(kpText[2]) + DigitOf(kpText[3])
           col == [i \in 1..k |-> ((300 * PosScale) \div 3^i) * ((d[i] - 1) % 3)]
           row == [i \in 1..k |-> ((300 * PosScale) \div 3^i) * (2 - (((d[i] + 2) \div 3) - 1))]
           half == ((300 * PosScale) \div 3^k) \div 2
       IN /\ ~out.pos.throws
          /\ out.pos.lat = Num(300 * PosScale * L + SumTo(col, k) + half)
          /\ out.pos.lng = Num(300 * PosScale * (n - 1) + SumTo(row, k) + half)
\* a well-formed keypad of column C with the sub-digits 5 and 9 was decoded
C3_Witness ==
    /\ Decoded /\ Typed /\ WellFormed(kpText) /\ Len(TokensOf(kpText)) = 2
    /\ kpText[1] = "C" /\ TokensOf(kpText) = <<"5", "9">>
    /\ ~out.pos.lat.nan /\ ~out.pos.lng.nan

\* ---- helpers of the claims on shoot
\* a decoded position is invalid when lat or lng is NaN
NaNOnEitherAxis(pos) == IsNaN(pos.lat) \/ IsNaN(pos.lng)
InvalidTags == {"Invalid mortar and target", "Invalid mortar", "Invalid target"}
OutOfMapTags == {"Mortar is out of map", "Target is out of map"}
RangeTags == {"Target is out of range : ", "Target is too close : "}
Reported == ui.errorMsg.text
\* the height lookup of the two decoded positions fails
OutOfMap == getHeight(shot.aPos, shot.bPos, activeMap).err # "none"
\* the converted elevation of the two decoded positions is rejected
ShotElevation ==
    ConvertElevation(
        getElevation(getDist(shot.aPos, shot.bPos),
                     Num(getHeight(shot.aPos, shot.bPos, activeMap).v),
                     getVelocity(activeWeapon, getDist(shot.aPos, shot.bPos)),
                     activeWeapon),
        activeWeapon)
RangeFailure == IsNaN(ShotElevation) \/ AboveMinElevation(ShotElevation, activeWeapon)

\* C4: on every call of shoot that passes the length guard exactly one
\* failure is reported and it is the most fundamental one: an invalid
\* position failure if a decoded position has a NaN on either axis,
\* otherwise an out-of-map failure if the height lookup fails, otherwise a
\* range failure if the elevation is rejected; insertCalc is called exactly
\* when none of these holds.
C4_FailurePrecedence ==
    shot.decoded
    => LET invalid == NaNOnEitherAxis(shot.aPos) \/ NaNOnEitherAxis(shot.bPos)
       IN /\ invalid => Reported \in InvalidTags
          /\ (~invalid /\ OutOfMap) => Reported \in OutOfMapTags
          /\ (~invalid /\ ~OutOfMap /\ RangeFailure) => Reported \in RangeTags
          /\ shot.inserted <=> (~invalid /\ ~OutOfMap /\ ~RangeFailure)
          /\ shot.inserted <=> Reported = "-"

\* C5: for inputs of length >= 3 shoot reports invalid mortar and target
\* exactly when both decoded positions have a NaN on either axis, invalid
\* mortar exactly when only the mortar has, invalid target exactly when
\* only the target has; and a call with such a position does not go on to
\* the height lookup.
C5_InvalidTagging ==
    shot.decoded
    => LET ia == NaNOnEitherAxis(shot.aPos)
           ib == NaNOnEitherAxis(shot.bPos)
       IN /\ (Reported = "Invalid mortar and target") <=> (ia /\ ib)
          /\ (Reported = "Invalid mortar") <=> (ia /\ ~ib)
          /\ (Reported = "Invalid target") <=> (~ia /\ ib)
          /\ (ia \/ ib) => ~shot.heightLookup

\* ---- helpers of the claims on the range rejection
\* shoot tells the two causes of a rejection apart, and rejects nothing else
ShootRejectsByCause ==
    shot.solved
    => /\ (Reported = "Target is out of range : ") <=> IsNaN(shot.elevation)
       /\ (Reported = "Target is too close : ")
             <=> (~IsNaN(shot.elevation) /\ AboveMinElevation(shot.elevation, activeWeapon))
       /\ (~IsNaN(shot.elevation) /\ ~AboveMinElevation(shot.elevation, activeWeapon))
             => (shot.inserted /\ Reported = "-")
CalcDone == calc.fn = "getCalcFromUI" /\ ~calc.throws
\* getCalcFromUI rejects exactly a NaN and an elevation above the bound
CalcRejectsOnlyThose ==
    CalcDone
    => (calc.elevation.dashes
           <=> (IsNaN(calc.converted) \/ AboveMinElevation(calc.converted, activeWeapon)))

C7_NaNOnlyWhenNegative ==
    (out.fn \in {"getElevation", "getElevationWithEllipseParams"})
    => (IsNaN(out.angle)
           <=> Discriminant(Num(call.dist), Num(call.vDelta), Num(call.vel),
                            Gravity * activeWeapon.gravityScale).v < 0)

\* C8: when the macro part is valid and some sub-keypad token is not one of
\* the digits 1..9 (a non-numeric token, or the digit 0), getPos returns NaN
\* on both axes.
C8_BadSubIsNaN ==
    (Decoded /\ Typed /\ ValidMacro(kpText) /\ ~WellFormed(kpText))
    => ~out.pos.throws /\ out.pos.lat.nan /\ out.pos.lng.nan

\* C9: a non-empty keypad whose first character, once upper-cased and the
\* dashes removed, has a character code below 65 decodes to {NaN, NaN}, and
\* getPos raises nothing.
FirstCharBelowA(s) ==
    \E i \in 1..Len(s) :
       /\ s[i] # "-"
       /\ \A j \in 1..(i - 1) : s[j] = "-"
       /\ s[i] \in {"@", "!", " "} \cup {Digits[d] : d \in 1..10}
C10_NeverThrows == Decoded => ~out.pos.throws

\* C10 as amended: formatKeyPad raises on no string and returns undefined
\* exactly on the empty one; getPos raises exactly on the empty string (it
\* splits that undefined) and on no other string, however malformed.
C10_ThrowsOnlyOnEmpty ==
    /\ (Decoded /\ Typed) => (out.pos.throws <=> kpText = <<>>)
    /\ (out.fn = "formatKeyPad") => (out.fmt.undef <=> kpText = <<>>)
\* the empty string was decoded, and getPos raised
C10_Witness ==
    /\ Decoded /\ Typed
    /\ kpText = <<>> /\ out.pos.throws

\* C11: getKP returns the string XXX-X-X for every lat, lng, precision with
\* lat < 0 or lng < 0, whatever their magnitudes and the precision, and
\* never for lat >= 0 and lng >= 0.
C11_SentinelOutsideMinBounds ==
    (call.fn = "getKP")
    => (kpText = <<"X", "X", "X", "-", "X", "-", "X">>
           <=> (call.lat < 0 \/ call.lng < 0))
\* getKP was called with a lat far below 0, a lng on the map and precision 5
C11_Witness ==
    /\ call.fn = "getKP" /\ call.lat = -450 /\ call.lng = 500
    /\ call.precision2 = 10
    /\ kpText = <<"X", "X", "X", "-", "X", "-", "X">>

\* C12: the letter of getKP's string is the character of code 65 + c for a
\* macro column c = floor(x / 300) in 0..25 and of code 65 + c + 6 for
\* c >= 26: x = 7799 gives Z and x = 7800 gives the lower-case a.
C12_LetterWrap ==
    (call.fn = "getKP" /\ call.lat >= 0 /\ call.lng >= 0)
    => LET c == call.lng \div 300
       IN /\ c <= 25 => CharCode(kpText[1]) = 65 + c
          /\ c >= 26 => CharCode(kpText[1]) = 65 + c + 6
          /\ call.lng = 7799 => kpText[1] = "Z"
          /\ call.lng = 7800 => kpText[1] = "a"
\* x = 7800 was encoded, and the letter is the lower-case a
C12_Witness ==
    /\ call.fn = "getKP" /\ call.lat >= 0 /\ call.lng = 7800
    /\ kpText[1] = "a"

\* C13 as stated: getKP(0, 0, 5) is A01-7-7-7-7, four sub-digits 7.
C13_CornerFourDigits ==
    (call.fn = "getKP" /\ call.lat = 0 /\ call.lng = 0 /\ call.precision2 = 10)
    => kpText = <<"A", "0", "1", "-", "7", "-", "7", "-", "7", "-", "7">>

\* C13 as amended: the corner resolves to the sub-digit 7 at every level,
\* but precision 5 carries three of them: getKP(0, 0, 5) is A01-7-7-7, and
\* the four of A01-7-7-7-7 come with a precision of 6 or more.
C13_CornerThreeDigits ==
    (call.fn = "getKP" /\ call.lat = 0 /\ call.lng = 0)
    => /\ call.precision2 = 10 => kpText = <<"A", "0", "1", "-", "7", "-", "7", "-", "7">>
       /\ call.precision2 >= 12
             => kpText = <<"A", "0", "1", "-", "7", "-", "7", "-", "7", "-", "7">>
       /\ \A i \in 1..Len(kpText) : i > 4 /\ i % 2 = 1 => kpText[i] = "7"
\* the corner was encoded at precision 5
C13_Witness ==
    /\ call.fn = "getKP" /\ call.lat = 0 /\ call.lng = 0 /\ call.precision2 = 10
    /\ SubDigitsOf(kpText) = 3

\* ---- helpers of the claim on canonical strings
IsUpper(c) == c \in {Ascii65[i] : i \in 1..26}
IsLower(c) == c \in {Ascii65[i] : i \in 33..58}
\* one upper-case letter, two digits, then groups of a dash and a character
Canonical(s) ==
    /\ Len(s) >= 3 /\ (Len(s) - 3) % 2 = 0
    /\ IsUpper(s[1]) /\ IsDigit(s[2]) /\ IsDigit(s[3])
    /\ \A i \in 4..Len(s) : i % 2 = 0 => s[i] = "-"
\* the character of every group is neither a dash nor a lower-case letter
GroupsKept(s) == \A i \in 5..Len(s) : i % 2 = 1 => (s[i] # "-" /\ ~IsLower(s[i]))

\* C14 as stated: formatKeyPad(s) = s for every string s made of one
\* upper-case letter, two digits and zero or more groups of a dash followed
\* by one character.
C14_FormatNoOp ==
    (out.fn = "formatKeyPad" /\ Canonical(kpText)) => out.fmt = Str(kpText)

\* C14 as amended: for such a string s, formatKeyPad(s) = s exactly when the
\* character of every group is neither a dash nor a lower-case letter (as
\* with the digits 1..9): a lower-case character comes back upper-cased and
\* a dash in the place of a group's character is removed.
C14_FormatNoOpOnKeptGroups ==
    (out.fn = "formatKeyPad" /\ Canonical(kpText))
    => (out.fmt = Str(kpText) <=> GroupsKept(kpText))
\* a canonical string with two groups of a digit was formatted to itself
C14_Witness ==
    /\ out.fn = "formatKeyPad"
    /\ kpText = <<"C", "0", "2", "-", "5", "-", "9">>
    /\ out.fmt = Str(kpText)

\* C15: for every pair of points a, b, the same point twice and every
\* quadrant of b relative to a included, getBearing(a, b) is a number in
\* [0, 360): never negative, never 360 or more.
C15_BearingInRange ==
    (out.fn = "getBearing")
    => (~IsNaN(out.bearing) /\ out.bearing.v >= 0 /\ out.bearing.v < 360)

\* C16: with no active map selected getHeight
\* returns the number 0 for every pair of decoded positions, never AERROR,
\* BERROR or a sampled height, so that shoot goes on to the solver with a
\* height difference of 0 and reports no out-of-map failure.
C16_NoMapHeightZero ==
    (shot.heightLookup /\ ~activeMap.selected)
    => /\ shot.height = Height(0)
       /\ shot.solved
       /\ Reported \notin OutOfMapTags
       /\ shot.elevation =
             ConvertElevation(
                 getElevation(getDist(shot.aPos, shot.bPos), Num(0),
                              getVelocity(activeWeapon, getDist(shot.aPos, shot.bPos)),
                              activeWeapon),
                 activeWeapon)
\* with nothing selected shoot inserted a solution for a target that lies
\* off the heightmap of every map
C16_Witness ==
    /\ ~activeMap.selected /\ shot.heightLookup /\ shot.inserted
    /\ ui.mortarVal = <<"A", "0", "1">> /\ ui.targetVal = <<"A", "0", "4">>
    /\ shot.height = Height(0)

\* ---- helpers of the claim on the three outcomes of getHeight
\* the pixel of the active map's heightmap under a point
PixelUnder(pos) ==
    LET map == MAPS[activeMap.index + 1]
    IN ImageData(map, OffsetPixel(pos.lat, map.offset[1], map.size),
                      OffsetPixel(pos.lng, map.offset[2], map.size))
IsBlack(pixel) == pixel.r = 0 /\ pixel.b = 0

C18_ToggleFlips ==
    shot.toggledFrom # "none" =>
        IF activeWeapon.name = "mortar" \/ activeWeapon.name = "UB-32"
        THEN activeWeapon.angleType = shot.toggledFrom
        ELSE activeWeapon.angleType # shot.toggledFrom

\* C19: every call of toggleHeatmap made while the heatmap button is active
\* starts the spinner once and one fetch; the settling of a fetch switches
\* the spinner off once, so the calls of spin(true) not yet matched by a
\* spin(false) are those of the pending fetches and of the loading image
\* layers; a failed fetch leaves the button inactive, raises one error toast
\* and adds no heatmap layer; an answered fetch adds one heatmap layer, which
\* holds the markers of the answer.
C19_FetchWithFallback ==
    /\ (heatLog.toggle.called /\ heatLog.toggle.wasActive) =>
          /\ heatLog.toggle.spinOn = 1
          /\ Cardinality(heatLog.toggle.started) = 1
    /\ heatLog.settle.called => heatLog.settle.spinOff = 1
    /\ (heatLog.settle.called /\ ~heatLog.settle.ok) =>
          /\ ~heatLog.settle.activeAfter
          /\ heatLog.settle.toasts = 1
          /\ heatLog.settle.added = {}
    /\ (heatLog.settle.called /\ heatLog.settle.ok) =>
          /\ heatLog.settle.added = {HeatLayer(heatLog.settle.id, heatLog.settle.markers)}
          /\ heatLog.settle.toasts = 0
    /\ minimap.spinOn - minimap.spinOff
          = Cardinality(minimap.pending) + Cardinality(minimap.loads)

\* C19 witness: a fetch started by a call made with the button active has
\* failed while another fetch was still pending.
C19_Witness ==
    /\ heatLog.toggle.called /\ heatLog.toggle.wasActive
    /\ heatLog.settle.called /\ ~heatLog.settle.ok
    /\ minimap.pending # {}

\* C20: under every interleaving of the calls of toggleHeatmap with the
\* settling of their fetches, at most one heatmap layer is on the map, and a
\* heatmap layer on the map is the one this.heatmap refers to.
C20_OneReferencedHeatmap ==
    /\ Cardinality(minimap.heatLayers) <= 1
    /\ \A l \in minimap.heatLayers : l.id = minimap.heatmap

\* C21: under every interleaving of clicks of the heatmap button, calls of
\* toggleHeatmap and settling fetches, once no fetch is pending a heatmap
\* layer is on the map only if the heatmap button is active: a fetch started
\* with the button active and answered after the button was deactivated
\* leaves no heatmap on the map.
C21_HeatmapOnlyWhenActive ==
    (minimap.pending = {} /\ minimap.heatLayers # {}) => minimap.helpmapActive

\* ---- helpers of the claim on the markers
\* a position outside the image, whose corners are (0, 0) and
\* (-tilesSize, tilesSize)
OutsideImage(latlng) ==
    ~(latlng.lat \in (-TilesSize)..0 /\ latlng.lng \in 0..TilesSize)
KindsCreated == [i \in 1..Len(markers.last.created) |-> markers.last.created[i].kind]

\* C22: after any sequence of right-clicks and double-clicks, in or out of
\* the image, the map holds at most 2 active weapon markers; a click outside
\* the image creates no marker of any kind; a double-click inside the image
\* creates one weapon marker and no target when no weapon marker exists, and
\* one target marker and no weapon otherwise.
C22_MarkersOfClicks ==
    /\ Len(markers.activeWeaponsMarkers) <= 2
    /\ (markers.last.called /\ OutsideImage(markers.last.latlng))
          => markers.last.created = <<>>
    /\ (markers.last.called /\ markers.last.handler = "dblclick"
           /\ ~OutsideImage(markers.last.latlng))
          => KindsCreated = (IF markers.last.weaponsBefore = 0
                             THEN <<"weapon">> ELSE <<"target">>)

\* C22 witness: with two weapon markers on the map, a double-click on the
\* corner of the image has created a target.
C22_Witness ==
    /\ markers.last.called /\ markers.last.handler = "dblclick"
    /\ markers.last.latlng = LatLng(-TilesSize, TilesSize)
    /\ markers.last.weaponsBefore = 2
    /\ KindsCreated = <<"target">>

\* C23: starting from an empty saved list, after any sequence of saveCalc
\* and RemoveSaves the list holds at most 4 rows; a saveCalc on a list of 4
\* rows drops the oldest row and appends the new one last, a saveCalc on a
\* shorter list appends the new row; the panel of the saved calcs is hidden
\* exactly when the list is empty.
C23_SavedListFifo ==
    /\ Len(saves.list) <= 4
    /\ saves.last.called =>
          /\ saves.list[Len(saves.list)].id = saves.last.row
          /\ SubSeq(saves.list, 1, Len(saves.list) - 1)
                = (IF Len(saves.last.before) = 4 THEN Tail(saves.last.before)
                   ELSE saves.last.before)
    /\ saves.hidden <=> (saves.list = <<>>)

\* C23 witness: a saveCalc on a full list, one of whose rows had been removed
\* and replaced before, has dropped the oldest row.
C23_Witness ==
    /\ saves.last.called /\ Len(saves.last.before) = 4
    /\ saves.last.row = 6
    /\ Len(saves.list) = 4 /\ saves.list[1].id = 3

\* C24: the two keypad encoders agree: for every point with non-negative
\* coordinates on the map, in every macro column the map can have, those
\* past Z included, and every precision 1..6, the getKP of the map widget
\* with mapToGameScale = 1 returns the string the standalone getKP returns
\* for the same lat, lng and precision.
C24_EncodersAgree ==
    (call.fn = "minimap.getKP" /\ call.precision2 \in {2 * p : p \in 1..6})
    => kpText = getKP(call.lat, call.lng, call.precision2, call.zoom2)

=============================================================================
